---------------------------- MODULE Spec2Model ----------------------------
(***************************************************************************)
(* certbot/error_handler.py: the ErrorHandler context manager.             *)
(*                                                                         *)
(* The model is the Python process that uses ErrorHandler instances: the   *)
(* process-wide signal table (signal.getsignal / signal.signal), the       *)
(* fields of each ErrorHandler, the position of the main thread inside     *)
(* __enter__, the with-body and __exit__, and tracked signals that arrive  *)
(* between any two steps of the main thread (CPython runs a Python-level   *)
(* signal handler between two bytecodes of the main thread).               *)
(***************************************************************************)
EXTENDS Integers, Sequences, FiniteSets, TLC

\* ------------------------------------------------------------------ bounds
MaxActions == 3      \* cleanup functions registered on one ErrorHandler
MaxSignals == 3      \* signals that arrive from outside during one behaviour
MaxSeqActions == 1   \* the same two bounds for each of two ErrorHandlers
MaxSeqSignals == 2   \*   used in one behaviour

\* --------------------------------------------------------------- constants
\* _SIGNALS: SIGTERM plus the POSIX signals whose disposition is not SIG_IGN
\* at import time; two of them are enough to tell arrival order apart.
_SIGNALS == <<"SIGTERM", "SIGHUP">>

Sigs == {_SIGNALS[i] : i \in 1..Len(_SIGNALS)}

\* ErrorHandler instances.  Spec runs one scope, on instance 1.
Guards == {1, 2}

\* The bound method self._signal_handler of instance g, as a table value.
SignalHandlerOf(g) == IF g = 1 THEN "handler1" ELSE "handler2"

GuardHandlers == {SignalHandlerOf(g) : g \in Guards}

\* What signal.getsignal can return before any ErrorHandler is entered:
\* SIG_DFL, or None for a handler that was not installed from Python.
PriorHandlers == {"SIG_DFL", "None"}

Absent == "absent"   \* signum is not a key of the dict prev_handlers

ExcTypes == {"None", "SystemExit", "SignalExit", "Other"}

Unset == "unset"     \* __exit__ has not been called

VARIABLES
    handler,           \* the process-wide signal table: signum -> handler
    body_executed,     \* self.body_executed
    funcs,             \* self.funcs, as the registration ordinals of the partials
    prev_handlers,     \* self.prev_handlers: signum -> handler, or Absent
    received_signals,  \* self.received_signals
    pc,                \* where the main thread is in the scope of instance g
    idx,               \* position of the for loop the main thread is in
    exec_type,         \* the exec_type __exit__ was called with
    retval,            \* the local retval of __exit__
    nreg,              \* history: how many functions were registered on g
    called,            \* history: the functions _call_registered invoked, in order
    failed,            \* history: the invoked functions that raised
    killed,            \* history: the os.kill calls of _call_signals, with the
                       \*          handler the table held for the signal then
    before,            \* history: the signal table when __enter__ was called
    sigLog,            \* history: each run of g's _signal_handler: the signal,
                       \*          where the main thread was, whether it raised
    escaped,           \* history: what the with statement of g raised to its caller
    stray,             \* history: g's handler raised SignalExit outside g's scope
    nsig               \* history: signals that arrived from outside

vars == <<handler, body_executed, funcs, prev_handlers, received_signals, pc,
          idx, exec_type, retval, nreg, called, failed, killed, before,
          sigLog, escaped, stray, nsig>>

\* ------------------------------------------------------------ construction
\* __init__: empty fields; func, when given, is registered first.
Init ==
    /\ handler \in [Sigs -> PriorHandlers]
    /\ body_executed = [g \in Guards |-> FALSE]
    /\ \E n \in {0, 1} :
          /\ funcs = [g \in Guards |-> IF g = 1 /\ n = 1 THEN <<1>> ELSE <<>>]
          /\ nreg = [g \in Guards |-> IF g = 1 THEN n ELSE 0]
    /\ prev_handlers = [g \in Guards |-> [s \in Sigs |-> Absent]]
    /\ received_signals = [g \in Guards |-> <<>>]
    /\ pc = [g \in Guards |-> "idle"]
    /\ idx = [g \in Guards |-> 0]
    /\ exec_type = [g \in Guards |-> Unset]
    /\ retval = [g \in Guards |-> FALSE]
    /\ called = [g \in Guards |-> <<>>]
    /\ failed = [g \in Guards |-> {}]
    /\ killed = [g \in Guards |-> <<>>]
    /\ before = [g \in Guards |-> handler]
    /\ sigLog = [g \in Guards |-> <<>>]
    /\ escaped = [g \in Guards |-> "none"]
    /\ stray = [g \in Guards |-> FALSE]
    /\ nsig = 0

\* register: append a partial to self.funcs.  Called before the scope or from
\* the with-body.
register(g) ==
    /\ pc[g] \in {"idle", "body"}
    /\ nreg[g] < MaxActions
    /\ nreg' = [nreg EXCEPT ![g] = @ + 1]
    /\ funcs' = [funcs EXCEPT ![g] = Append(@, nreg[g] + 1)]
    /\ UNCHANGED <<handler, body_executed, prev_handlers, received_signals, pc,
                   idx, exec_type, retval, called, failed, killed, before,
                   sigLog, escaped, stray, nsig>>

\* ------------------------------------------------------------ pure helpers
\* A handler that raises SignalExit whatever body_executed is.
ShouldRaiseAlways(be) == TRUE

\* _signal_handler's test: raise SignalExit unless __exit__ has begun.
ShouldRaise(be) == ~be

\* __exit__'s classification of exec_type: whether the three calls at the end
\* run, and the value returned.
ExitKind(et) ==
    IF et \in {"None", "SystemExit"} THEN [cleanup |-> FALSE, retval |-> FALSE]
    ELSE IF et = "SignalExit" THEN [cleanup |-> TRUE, retval |-> TRUE]
    ELSE [cleanup |-> TRUE, retval |-> FALSE]

\* An __exit__ that resets the signal handlers before it calls the functions.
ExitStepsResetFirst == <<"reset", "cleanup", "replay">>

\* The calls that end __exit__, in order: _call_registered,
\* _reset_signal_handlers, _call_signals.
ExitSteps == <<"cleanup", "reset", "replay">>

PhaseAfter(p) ==
    LET i == CHOOSE k \in 1..Len(ExitSteps) : ExitSteps[k] = p
    IN  IF i < Len(ExitSteps) THEN ExitSteps[i + 1] ELSE "returned"

\* A loop that calls the first function registered instead of the last.
NextFuncFifo(fs) == fs[1]

\* _call_registered calls self.funcs[-1] and then pops it.
NextFunc(fs) == fs[Len(fs)]

PopFunc(fs) == SubSeq(fs, 1, Len(fs) - 1)

\* A loop without the try: a function that raises ends it.
AfterCallAborts(outcome) == IF outcome = "raise" THEN "abort" ELSE "continue"

\* try / except Exception around the call: the loop goes on whether the
\* function returned ("ok") or raised an Exception ("raise").
AfterCall(outcome) == "continue"

\* A loop without the test for None: every signal is saved and replaced.
ShouldSaveAlways(prev) == TRUE

\* _set_signal_handlers skips a signal whose handler getsignal gives as None.
ShouldSave(prev) == prev # "None"

\* The keys of prev_handlers in the order _reset_signal_handlers visits them.
SavedSignals(ph) == SelectSeq(_SIGNALS, LAMBDA s : ph[s] # Absent)

\* What the with statement raises to its caller once __exit__ has returned rv
\* for exec_type et: nothing when there was no exception or it is suppressed.
Propagated(et, rv) == IF rv \/ et = "None" THEN "none" ELSE et

ActivePcs == {"enter", "body", "exit", "cleanup", "reset", "replay"}

\* The instance whose scope the main thread is executing (instance 2 is only
\* entered after or inside the scope of instance 1); 0: code outside any scope.
Running ==
    IF pc[2] \in ActivePcs THEN 2 ELSE IF pc[1] \in ActivePcs THEN 1 ELSE 0

Where == IF Running = 0 THEN "caller" ELSE pc[Running]

\* ------------------------------------------------------------ scoped entry
\* __enter__: body_executed = False, then _set_signal_handlers().
__enter__(g) ==
    /\ pc[g] = "idle"
    /\ body_executed' = [body_executed EXCEPT ![g] = FALSE]
    /\ pc' = [pc EXCEPT ![g] = "enter"]
    /\ idx' = [idx EXCEPT ![g] = 1]
    /\ before' = [before EXCEPT ![g] = handler]
    /\ UNCHANGED <<handler, funcs, prev_handlers, received_signals, exec_type,
                   retval, nreg, called, failed, killed, sigLog, escaped,
                   stray, nsig>>

\* One iteration of the loop of _set_signal_handlers, or its end, after which
\* __enter__ returns and the with-body starts.
_set_signal_handlers(g) ==
    /\ pc[g] = "enter"
    /\ IF idx[g] <= Len(_SIGNALS)
       THEN LET signum == _SIGNALS[idx[g]]
                prev_handler == handler[signum]
            IN  /\ IF ShouldSave(prev_handler)
                   THEN /\ prev_handlers' =
                              [prev_handlers EXCEPT ![g][signum] = prev_handler]
                        /\ handler' =
                              [handler EXCEPT ![signum] = SignalHandlerOf(g)]
                   ELSE UNCHANGED <<prev_handlers, handler>>
                /\ idx' = [idx EXCEPT ![g] = @ + 1]
                /\ pc' = pc
       ELSE /\ pc' = [pc EXCEPT ![g] = "body"]
            /\ UNCHANGED <<prev_handlers, handler, idx>>
    /\ UNCHANGED <<body_executed, funcs, received_signals, exec_type, retval,
                   nreg, called, failed, killed, before, sigLog, escaped,
                   stray, nsig>>

\* The with-body ends: normally, by SystemExit, or by any other exception.
BodyExits(g, et) ==
    /\ pc[g] = "body"
    /\ et \in {"None", "SystemExit", "Other"}
    /\ pc' = [pc EXCEPT ![g] = "exit"]
    /\ exec_type' = [exec_type EXCEPT ![g] = et]
    /\ UNCHANGED <<handler, body_executed, funcs, prev_handlers,
                   received_signals, idx, retval, nreg, called, failed, killed,
                   before, sigLog, escaped, stray, nsig>>

\* ------------------------------------------------------------- scoped exit
\* __exit__ from its first line to the early return or to the first of the
\* three final calls.
__exit__(g) ==
    /\ pc[g] = "exit"
    /\ body_executed' = [body_executed EXCEPT ![g] = TRUE]
    /\ LET k == ExitKind(exec_type[g])
       IN  /\ retval' = [retval EXCEPT ![g] = k.retval]
           /\ IF k.cleanup
              THEN /\ pc' = [pc EXCEPT ![g] = ExitSteps[1]]
                   /\ idx' = [idx EXCEPT ![g] = 1]
                   /\ UNCHANGED escaped
              ELSE /\ pc' = [pc EXCEPT ![g] = "returned"]
                   /\ escaped' = [escaped EXCEPT
                                    ![g] = Propagated(exec_type[g], k.retval)]
                   /\ UNCHANGED idx
    /\ UNCHANGED <<handler, funcs, prev_handlers, received_signals, exec_type,
                   nreg, called, failed, killed, before, sigLog, stray, nsig>>

\* One iteration of the while loop of _call_registered (the call, the except
\* clause, the pop), or its end.
_call_registered(g, outcome) ==
    /\ pc[g] = "cleanup"
    /\ outcome \in {"ok", "raise"}
    /\ IF funcs[g] # <<>>
       THEN LET f == NextFunc(funcs[g])
            IN  /\ called' = [called EXCEPT ![g] = Append(@, f)]
                /\ failed' = [failed EXCEPT
                                ![g] = IF outcome = "raise" THEN @ \cup {f} ELSE @]
                /\ IF outcome = "ok" \/ AfterCall(outcome) = "continue"
                   THEN /\ funcs' = [funcs EXCEPT ![g] = PopFunc(@)]
                        /\ UNCHANGED <<pc, escaped>>
                   ELSE /\ pc' = [pc EXCEPT ![g] = "leaked"]
                        /\ escaped' = [escaped EXCEPT ![g] = "Other"]
                        /\ UNCHANGED funcs
                /\ UNCHANGED idx
       ELSE /\ outcome = "ok"
            /\ pc' = [pc EXCEPT ![g] = PhaseAfter("cleanup")]
            /\ idx' = [idx EXCEPT ![g] = 1]
            /\ escaped' = [escaped EXCEPT
                             ![g] = IF PhaseAfter("cleanup") = "returned"
                                    THEN Propagated(exec_type[g], retval[g])
                                    ELSE @]
            /\ UNCHANGED <<funcs, called, failed>>
    /\ UNCHANGED <<handler, body_executed, prev_handlers, received_signals,
                   exec_type, retval, nreg, killed, before, sigLog, stray,
                   nsig>>

\* One iteration of the loop of _reset_signal_handlers, or the clear() that
\* ends it.
_reset_signal_handlers(g) ==
    /\ pc[g] = "reset"
    /\ LET keys == SavedSignals(prev_handlers[g])
       IN  IF idx[g] <= Len(keys)
           THEN /\ handler' = [handler EXCEPT
                                 ![keys[idx[g]]] = prev_handlers[g][keys[idx[g]]]]
                /\ idx' = [idx EXCEPT ![g] = @ + 1]
                /\ UNCHANGED <<prev_handlers, pc, escaped>>
           ELSE /\ prev_handlers' =
                      [prev_handlers EXCEPT ![g] = [s \in Sigs |-> Absent]]
                /\ pc' = [pc EXCEPT ![g] = PhaseAfter("reset")]
                /\ idx' = [idx EXCEPT ![g] = 1]
                /\ escaped' = [escaped EXCEPT
                                 ![g] = IF PhaseAfter("reset") = "returned"
                                        THEN Propagated(exec_type[g], retval[g])
                                        ELSE @]
                /\ UNCHANGED handler
    /\ UNCHANGED <<body_executed, funcs, received_signals, exec_type, retval,
                   nreg, called, failed, killed, before, sigLog, stray, nsig>>

\* One iteration of the loop of _call_signals: os.kill(os.getpid(), signum),
\* the signal going to the handler the table holds, which is the handler of no
\* ErrorHandler; or the end of the loop, after which __exit__ returns retval.
\* killed records the call and the handler the signal goes to; what that
\* handler then does to the process is not part of ErrorHandler.
_call_signals(g) ==
    /\ pc[g] = "replay"
    /\ IF idx[g] <= Len(received_signals[g])
       THEN LET signum == received_signals[g][idx[g]]
            IN  /\ handler[signum] \notin GuardHandlers
                /\ killed' = [killed EXCEPT
                                ![g] = Append(@, [sig |-> signum,
                                                  by |-> handler[signum]])]
                /\ idx' = [idx EXCEPT ![g] = @ + 1]
                /\ UNCHANGED <<pc, escaped>>
       ELSE /\ pc' = [pc EXCEPT ![g] = PhaseAfter("replay")]
            /\ idx' = [idx EXCEPT ![g] = 1]
            /\ escaped' = [escaped EXCEPT
                             ![g] = IF PhaseAfter("replay") = "returned"
                                    THEN Propagated(exec_type[g], retval[g])
                                    ELSE @]
            /\ UNCHANGED killed
    /\ UNCHANGED <<handler, body_executed, funcs, prev_handlers,
                   received_signals, exec_type, retval, nreg, called, failed,
                   before, sigLog, stray, nsig>>

\* ------------------------------------------------------ the signal handler
\* A handler that also puts the saved handler back for the signal it got.
OneShotSignalHandler(h, signum) ==
    /\ nsig < MaxSignals
    /\ handler[signum] = SignalHandlerOf(h)
    /\ nsig' = nsig + 1
    /\ received_signals' = [received_signals EXCEPT ![h] = Append(@, signum)]
    /\ sigLog' = [sigLog EXCEPT
                    ![h] = Append(@, [sig |-> signum, at |-> Where,
                                      raised |-> ShouldRaise(body_executed[h])])]
    /\ handler' = [handler EXCEPT ![signum] = prev_handlers[h][signum]]
    /\ UNCHANGED <<body_executed, funcs, prev_handlers, nreg, called, failed,
                   killed, before, retval>>

\* A signal arrives from outside while the table routes it to the
\* _signal_handler of instance h: the handler appends it to received_signals
\* and raises SignalExit unless body_executed is set.  (A signal the table
\* routes elsewhere never reaches an ErrorHandler.)
_signal_handler(h, signum) ==
    /\ nsig < MaxSignals
    /\ handler[signum] = SignalHandlerOf(h)
    /\ nsig' = nsig + 1
    /\ received_signals' = [received_signals EXCEPT ![h] = Append(@, signum)]
    /\ sigLog' = [sigLog EXCEPT
                    ![h] = Append(@, [sig |-> signum, at |-> Where,
                                      raised |-> ShouldRaise(body_executed[h])])]
    /\ UNCHANGED <<handler, body_executed, funcs, prev_handlers, nreg, called,
                   failed, killed, before, retval>>

\* body_executed is set: the signal is only recorded.
SignalDeferred(h, signum) ==
    /\ _signal_handler(h, signum)
    /\ ~ShouldRaise(body_executed[h])
    /\ UNCHANGED <<pc, idx, exec_type, escaped, stray>>

\* SignalExit is raised in the with-body and leaves it: __exit__ is called
\* with exec_type SignalExit.
SignalAbortsBody(h, signum) ==
    /\ _signal_handler(h, signum)
    /\ ShouldRaise(body_executed[h])
    /\ Running # 0 /\ pc[Running] = "body"
    /\ pc' = [pc EXCEPT ![Running] = "exit"]
    /\ exec_type' = [exec_type EXCEPT ![Running] = "SignalExit"]
    /\ UNCHANGED <<idx, escaped, stray>>

\* SignalExit is raised in the with-body, which catches it (SignalExit is an
\* Exception) and goes on.
SignalCaughtInBody(h, signum) ==
    /\ _signal_handler(h, signum)
    /\ ShouldRaise(body_executed[h])
    /\ Running # 0 /\ pc[Running] = "body"
    /\ UNCHANGED <<pc, idx, exec_type, escaped, stray>>

\* SignalExit is raised while the main thread is inside __enter__ (some
\* handlers installed, the body not begun) or inside __exit__ (before its
\* first line has set body_executed): no except clause of the ErrorHandler is
\* around it, and it leaves the with statement.
SignalEscapes(h, signum) ==
    /\ _signal_handler(h, signum)
    /\ ShouldRaise(body_executed[h])
    /\ Running # 0 /\ pc[Running] \in ActivePcs \ {"body"}
    /\ pc' = [pc EXCEPT ![Running] = "leaked"]
    /\ escaped' = [escaped EXCEPT ![Running] = "SignalExit"]
    /\ UNCHANGED <<idx, exec_type, stray>>

\* SignalExit is raised in code outside every scope: the handler of h is still
\* in the table and body_executed unset.
SignalStray(h, signum) ==
    /\ _signal_handler(h, signum)
    /\ ShouldRaise(body_executed[h])
    /\ Running = 0
    /\ stray' = [stray EXCEPT ![h] = TRUE]
    /\ UNCHANGED <<pc, idx, exec_type, escaped>>

\* ----------------------------------------------------------- specification
\* One ErrorHandler, used for one with statement.
Next ==
    \/ register(1)
    \/ __enter__(1)
    \/ _set_signal_handlers(1)
    \/ \E et \in ExcTypes : BodyExits(1, et)
    \/ __exit__(1)
    \/ \E outcome \in {"ok", "raise"} : _call_registered(1, outcome)
    \/ _reset_signal_handlers(1)
    \/ _call_signals(1)
    \/ \E signum \in Sigs :
          \/ SignalDeferred(1, signum)
          \/ SignalAbortsBody(1, signum)
          \/ SignalCaughtInBody(1, signum)
          \/ SignalEscapes(1, signum)
          \/ SignalStray(1, signum)

Spec == Init /\ [][Next]_vars

TypeOK ==
    /\ handler \in [Sigs -> PriorHandlers \cup GuardHandlers]
    /\ body_executed \in [Guards -> BOOLEAN]
    /\ \A g \in Guards :
          /\ pc[g] \in ActivePcs \cup {"idle", "returned", "leaked"}
          /\ exec_type[g] \in ExcTypes \cup {Unset}
          /\ Len(funcs[g]) <= MaxActions
          /\ Len(received_signals[g]) <= MaxSignals
          /\ escaped[g] \in ExcTypes \cup {"none"}

\* ------------------------------------------------------------------ claims
Finished(g) == pc[g] \in {"returned", "leaked"}

\* The functions registered on g, last registered first.
ReverseOrder(g) == [i \in 1..nreg[g] |-> nreg[g] + 1 - i]

\* The signals of the os.kill calls g has made, in order.
KilledSigs(g) == [i \in 1..Len(killed[g]) |-> killed[g][i].sig]

\* Every signal __enter__ took over is back at the handler it had before.
Restored(g) == \A s \in Sigs : handler[s] = before[g][s]

\* C1: whenever __exit__ runs _call_registered, the functions it invokes are
\* the registered ones in the reverse of their registration order, each once:
\* what has been invoked so far is a prefix of that order, what is left in
\* funcs is the rest, and once the loop is over all N have been invoked --
\* whichever of them raised.
C1_ReverseOrderOnce ==
    \A g \in Guards :
        /\ \A i \in 1..Len(called[g]) : called[g][i] = ReverseOrder(g)[i]
        /\ pc[g] = "cleanup" =>
              /\ Len(called[g]) + Len(funcs[g]) = nreg[g]
              /\ funcs[g] = [i \in 1..Len(funcs[g]) |-> i]
        /\ (pc[g] \in {"reset", "replay"}
              \/ (pc[g] = "returned" /\ ExitKind(exec_type[g]).cleanup))
           => called[g] = ReverseOrder(g)
        /\ failed[g] \subseteq {called[g][i] : i \in 1..Len(called[g])}

\* Three functions were invoked, last registered first, two of them raised.
C1_Witness ==
    /\ pc[1] = "returned"
    /\ called[1] = <<3, 2, 1>>
    /\ failed[1] = {1, 3}

\* C2 (as claimed): once a tracked signal has arrived in the with-body, the
\* scope ends with __exit__ returning for SignalExit, every function invoked,
\* the handlers of before the entry back in the table, and each such signal
\* sent to the process once per arrival, to the restored handler.
C2_SignalInBodyAsClaimed ==
    \A g \in Guards :
        (Finished(g) /\ \E i \in 1..Len(sigLog[g]) : sigLog[g][i].at = "body")
        => /\ pc[g] = "returned"
           /\ exec_type[g] = "SignalExit"
           /\ called[g] = ReverseOrder(g)
           /\ Restored(g)
           /\ KilledSigs(g) = received_signals[g]
           /\ \A i \in 1..Len(killed[g]) :
                 killed[g][i].by = before[g][killed[g][i].sig]

\* C3 (as claimed): when the with-body ends with an exception that is neither
\* SignalExit nor SystemExit, the scope ends with every function invoked, every
\* handler back at its value of before the entry, __exit__ having returned
\* False and that exception reaching the caller.
C3_OtherFailureAsClaimed ==
    \A g \in Guards :
        (Finished(g) /\ exec_type[g] = "Other")
        => /\ pc[g] = "returned"
           /\ called[g] = ReverseOrder(g)
           /\ Restored(g)
           /\ retval[g] = FALSE
           /\ escaped[g] = "Other"

\* C4 (as claimed): when the with-body ends without an exception and __exit__
\* has returned, every signal is back at the handler it had before the entry.
C4_CleanExitRestoresAsClaimed ==
    \A g \in Guards :
        (pc[g] = "returned" /\ exec_type[g] = "None") => Restored(g)

\* C5 (as claimed): when the with-body ends without an exception, no
\* registered function is invoked and __exit__ returns False.
C5_CleanExitAsClaimed ==
    \A g \in Guards :
        (Finished(g) /\ exec_type[g] = "None")
        => /\ called[g] = <<>>
           /\ pc[g] = "returned"
           /\ retval[g] = FALSE

\* C6: in an __exit__ that cleans up, no handler is reset while functions are
\* still to be called, no signal is sent before every saved handler is reset,
\* and so every signal that is sent goes to the handler of before the entry,
\* never to the ErrorHandler's own.
C6_PhasesOrdered ==
    \A g \in Guards :
        /\ pc[g] = "cleanup" =>
              /\ \A s \in Sigs : ShouldSave(before[g][s])
                                   => handler[s] = SignalHandlerOf(g)
              /\ killed[g] = <<>>
        /\ pc[g] = "reset" =>
              /\ funcs[g] = <<>> /\ called[g] = ReverseOrder(g)
              /\ killed[g] = <<>>
        /\ pc[g] = "replay" =>
              /\ funcs[g] = <<>> /\ called[g] = ReverseOrder(g)
              /\ Restored(g)
              /\ \A s \in Sigs : prev_handlers[g][s] = Absent
        /\ \A i \in 1..Len(killed[g]) :
              /\ killed[g][i].by # SignalHandlerOf(g)
              /\ killed[g][i].by = before[g][killed[g][i].sig]

\* An __exit__ that called two functions, reset the handlers and sent a signal.
C6_Witness ==
    /\ pc[1] = "returned"
    /\ Len(called[1]) >= 2
    /\ Len(killed[1]) >= 1
    /\ \E s \in Sigs : before[1][s] = "SIG_DFL"

\* C7: a tracked signal that arrives while _call_registered is running raises
\* nothing and ends nothing: the loop goes on to its end, and the signal, kept
\* in received_signals, is sent to the process after the loop and after the
\* handlers are reset, to the handler of before the entry.
C7_SignalDuringCleanupDeferred ==
    \A g \in Guards : \A i \in 1..Len(sigLog[g]) :
        sigLog[g][i].at = "cleanup"
        => /\ ~sigLog[g][i].raised
           /\ received_signals[g][i] = sigLog[g][i].sig
           /\ pc[g] \in {"cleanup", "reset", "replay", "returned"}
           /\ pc[g] \in {"cleanup", "reset"} => killed[g] = <<>>
           /\ pc[g] \in {"reset", "replay", "returned"}
                 => called[g] = ReverseOrder(g)
           /\ pc[g] = "returned" =>
                 /\ Restored(g)
                 /\ i <= Len(killed[g])
                 /\ killed[g][i] = [sig |-> sigLog[g][i].sig,
                                    by |-> before[g][sigLog[g][i].sig]]

\* A signal arrived after the first of three functions was called; the other
\* two were called after it, and the signal was sent once __exit__ was done.
C7_Witness ==
    /\ pc[1] = "returned"
    /\ nreg[1] = 3
    /\ \E i \in 1..Len(sigLog[1]) :
          /\ sigLog[1][i].at = "cleanup"
          /\ i <= Len(killed[1])
    /\ exec_type[1] = "Other"

\* C8 (as claimed): the caller of the with statement never sees SignalExit:
\* none leaves the with statement, and none is raised by the ErrorHandler's
\* handler in the code that follows it.
C8_SignalExitNeverLeaksAsClaimed ==
    \A g \in Guards : escaped[g] # "SignalExit" /\ ~stray[g]

\* C9 (as claimed): when a first signal has made the with-body end with
\* SignalExit and a different signal arrives before __exit__ has set
\* body_executed, the second raises no SignalExit, and at the end of the scope
\* both have been sent to the process in the order they arrived.
C9_SecondSignalAsClaimed ==
    \A g \in Guards : \A i, j \in 1..Len(sigLog[g]) :
        (/\ i < j
         /\ sigLog[g][i].at = "body" /\ sigLog[g][i].raised
         /\ sigLog[g][j].at = "exit" /\ exec_type[g] = "SignalExit"
         /\ sigLog[g][i].sig # sigLog[g][j].sig)
        => /\ ~sigLog[g][j].raised
           /\ Finished(g) => /\ pc[g] = "returned"
                             /\ KilledSigs(g) = received_signals[g]

\* C10: a function that raises in _call_registered changes nothing of how the
\* scope ends: the exception does not leave __exit__, the function is popped
\* and the loop goes on, and when __exit__ returns every function has been
\* invoked, the handlers are reset, every received signal has been sent, and
\* the value returned is True for SignalExit and False otherwise, so that the
\* caller sees the with-body's own exception or none.
C10_CleanupFailuresSwallowed ==
    \A g \in Guards :
        failed[g] # {}
        => /\ pc[g] \in {"cleanup", "reset", "replay", "returned"}
           /\ pc[g] # "returned" => escaped[g] = "none"
           /\ pc[g] = "cleanup" => Len(called[g]) + Len(funcs[g]) = nreg[g]
           /\ pc[g] = "returned" =>
                 /\ called[g] = ReverseOrder(g)
                 /\ Restored(g)
                 /\ \A s \in Sigs : prev_handlers[g][s] = Absent
                 /\ KilledSigs(g) = received_signals[g]
                 /\ retval[g] = (exec_type[g] = "SignalExit")
                 /\ escaped[g] = IF exec_type[g] = "SignalExit" THEN "none"
                                 ELSE exec_type[g]

\* The first function called raised, the second did not; __exit__ returned
\* True for SignalExit after sending the signal.
C10_Witness ==
    /\ pc[1] = "returned"
    /\ exec_type[1] = "SignalExit"
    /\ called[1] = <<2, 1>>
    /\ failed[1] = {2}
    /\ Len(killed[1]) >= 1

\* C11 (as claimed): when the with-body ends with SystemExit, no registered
\* function is invoked, __exit__ returns False and SystemExit is what the
\* caller of the with statement gets.
C11_SystemExitAsClaimed ==
    \A g \in Guards :
        (Finished(g) /\ exec_type[g] = "SystemExit")
        => /\ called[g] = <<>>
           /\ pc[g] = "returned"
           /\ retval[g] = FALSE
           /\ escaped[g] = "SystemExit"

\* C12 (as claimed): a scope whose with-body has ended ends with __exit__
\* returning True exactly when exec_type is SignalExit: that exception is then
\* suppressed, and otherwise the with-body's own outcome is what the caller
\* gets.
C12_SuppressIffSignalExitAsClaimed ==
    \A g \in Guards :
        (Finished(g) /\ exec_type[g] # Unset)
        => /\ pc[g] = "returned"
           /\ retval[g] = (exec_type[g] = "SignalExit")
           /\ escaped[g] = IF exec_type[g] \in {"SignalExit", "None"}
                           THEN "none" ELSE exec_type[g]

\* The signals g's handler recorded while the scope of g was open, in order.
RecordedInScope(g) ==
    LET open == SelectSeq(sigLog[g], LAMBDA e : e.at # "caller")
    IN  [i \in 1..Len(open) |-> open[i].sig]

\* C13 (as claimed): received_signals is empty before __enter__, and empty
\* again once __exit__ has returned, whatever the exec_type.
C13_ReceivedSignalsClearedAsClaimed ==
    \A g \in Guards :
        pc[g] \in {"idle", "returned"} => received_signals[g] = <<>>

\* C14 (as claimed): prev_handlers has no key before __enter__ and none once
\* __exit__ has returned, whatever the exec_type.
C14_PrevHandlersEmptyAsClaimed ==
    \A g \in Guards :
        pc[g] \in {"idle", "returned"}
        => \A s \in Sigs : prev_handlers[g][s] = Absent

\* C15 (as claimed): when the with-body has ended with an exception that makes
\* __exit__ clean up, the scope ends with the os.kill calls of _call_signals
\* being, signal by signal and in the same order, the signals the handler
\* recorded while the scope was open.
C15_ReplayInArrivalOrderAsClaimed ==
    \A g \in Guards :
        (Finished(g) /\ exec_type[g] \in {"SignalExit", "Other"})
        => KilledSigs(g) = RecordedInScope(g)

\* C16: a step in which the _signal_handler of an ErrorHandler runs appends
\* the signal to that ErrorHandler's received_signals and leaves funcs,
\* prev_handlers and body_executed of every ErrorHandler and the process-wide
\* signal table as they were; besides that it can only raise SignalExit.
C16_HandlerFrame ==
    [][\A g \in Guards :
          sigLog'[g] # sigLog[g]
          => /\ sigLog'[g] = Append(sigLog[g], sigLog'[g][Len(sigLog'[g])])
             /\ received_signals'[g] =
                   Append(received_signals[g], sigLog'[g][Len(sigLog'[g])].sig)
             /\ UNCHANGED <<funcs, prev_handlers, body_executed, handler>>
             /\ pc' # pc => sigLog'[g][Len(sigLog'[g])].raised]_vars

\* The handler has run twice, raising in the with-body and not raising during
\* cleanup, with functions still to call and handlers saved.
C16_Witness ==
    /\ pc[1] = "cleanup"
    /\ Len(sigLog[1]) = 2
    /\ sigLog[1][1].raised /\ ~sigLog[1][2].raised
    /\ funcs[1] # <<>>
    /\ \E s \in Sigs : prev_handlers[1][s] = "SIG_DFL"

C19_NoSignalLostAsClaimed ==
    \A g \in Guards : Finished(g) => KilledSigs(g) = RecordedInScope(g)

\* ------------------------------------------- more than one ErrorHandler
\* The handler the table holds for signum belongs to instance h.
HandlerOwner(signum) ==
    CHOOSE h \in Guards : SignalHandlerOf(h) = handler[signum]

\* One iteration of the loop of _call_signals of g when the handler that
\* _reset_signal_handlers put back is the _signal_handler of another
\* ErrorHandler h: os.kill makes that handler run in the main thread.  It
\* appends the signal to h's received_signals; body_executed of h is set, so
\* it returns and the loop of g goes on.
_call_signals_deferred(g) ==
    /\ pc[g] = "replay"
    /\ idx[g] <= Len(received_signals[g])
    /\ LET signum == received_signals[g][idx[g]]
       IN  /\ handler[signum] \in GuardHandlers
           /\ LET h == HandlerOwner(signum)
              IN  /\ ~ShouldRaise(body_executed[h])
                  /\ killed' = [killed EXCEPT
                                  ![g] = Append(@, [sig |-> signum,
                                                    by |-> handler[signum]])]
                  /\ received_signals' =
                        [received_signals EXCEPT ![h] = Append(@, signum)]
                  /\ sigLog' = [sigLog EXCEPT
                                  ![h] = Append(@, [sig |-> signum, at |-> Where,
                                                    raised |-> FALSE])]
    /\ idx' = [idx EXCEPT ![g] = @ + 1]
    /\ UNCHANGED <<handler, body_executed, funcs, prev_handlers, pc, exec_type,
                   retval, nreg, called, failed, before, escaped, stray, nsig>>

\* The same iteration when body_executed of h is not set: h's handler raises
\* SignalExit at the os.kill line of g's _call_signals, which ends the loop
\* and leaves g's __exit__.
_call_signals_raises(g) ==
    /\ pc[g] = "replay"
    /\ idx[g] <= Len(received_signals[g])
    /\ LET signum == received_signals[g][idx[g]]
       IN  /\ handler[signum] \in GuardHandlers
           /\ LET h == HandlerOwner(signum)
              IN  /\ ShouldRaise(body_executed[h])
                  /\ killed' = [killed EXCEPT
                                  ![g] = Append(@, [sig |-> signum,
                                                    by |-> handler[signum]])]
                  /\ received_signals' =
                        [received_signals EXCEPT ![h] = Append(@, signum)]
                  /\ sigLog' = [sigLog EXCEPT
                                  ![h] = Append(@, [sig |-> signum, at |-> Where,
                                                    raised |-> TRUE])]
    /\ pc' = [pc EXCEPT ![g] = "leaked"]
    /\ escaped' = [escaped EXCEPT ![g] = "SignalExit"]
    /\ UNCHANGED <<handler, body_executed, funcs, prev_handlers, idx, exec_type,
                   retval, nreg, called, failed, before, stray, nsig>>

\* The steps of the main thread in the scope of g, from __enter__ on.
ScopeStep(g) ==
    \/ __enter__(g)
    \/ _set_signal_handlers(g)
    \/ \E et \in ExcTypes : BodyExits(g, et)
    \/ __exit__(g)
    \/ \E outcome \in {"ok", "raise"} : _call_registered(g, outcome)
    \/ _reset_signal_handlers(g)
    \/ _call_signals(g)
    \/ _call_signals_deferred(g)
    \/ _call_signals_raises(g)

\* A signal arrives from outside and the handler of instance h runs.
SignalStep(h) ==
    \E signum \in Sigs :
        \/ SignalDeferred(h, signum)
        \/ SignalAbortsBody(h, signum)
        \/ SignalCaughtInBody(h, signum)
        \/ SignalEscapes(h, signum)
        \/ SignalStray(h, signum)

\* Two with statements one after the other, each on its own ErrorHandler:
\* instance 2 is used once the scope of instance 1 is over.
SeqTurn(g) == g = 1 \/ Finished(1)

NextSeq ==
    \/ \E g \in Guards : SeqTurn(g) /\ nreg[g] < MaxSeqActions /\ register(g)
    \/ \E g \in Guards : SeqTurn(g) /\ ScopeStep(g)
    \/ \E h \in Guards : nsig < MaxSeqSignals /\ SignalStep(h)

SpecSeq == Init /\ [][NextSeq]_vars

\* C18 (as claimed): in the second of two scopes, a tracked signal that arrived
\* in the with-body has, once __exit__ has called the functions and the scope
\* is over, been sent to the handler the table held before the first scope
\* was entered; no signal the second ErrorHandler sends goes to the
\* _signal_handler of the first.
C18_LaterScopeDefaultDispositionAsClaimed ==
    /\ \A i \in 1..Len(killed[2]) : killed[2][i].by \notin GuardHandlers
    /\ \A i \in 1..Len(sigLog[2]) :
          (/\ sigLog[2][i].at = "body"
           /\ Finished(2) /\ body_executed[2]
           /\ exec_type[2] \in {"SignalExit", "Other"})
          => /\ i <= Len(killed[2])
             /\ killed[2][i] = [sig |-> sigLog[2][i].sig,
                                by |-> before[1][sigLog[2][i].sig]]

\* A with statement on instance 2 inside the with-body of instance 1: the
\* main thread is in the scope of instance 2 while that scope is open, and in
\* the scope of instance 1 otherwise; instance 2 is entered from the body of
\* instance 1.
NestTurn(g) == IF g = 1 THEN pc[2] \notin ActivePcs ELSE pc[1] = "body"

\* The steps of the main thread in the scope of g when the scopes are nested.
\* os.kill in the inner __exit__ can reach the outer _signal_handler only
\* while the outer body_executed is unset, so that handler raises.
NestStep(g) ==
    \/ __enter__(g)
    \/ _set_signal_handlers(g)
    \/ \E et \in ExcTypes : BodyExits(g, et)
    \/ __exit__(g)
    \/ \E outcome \in {"ok", "raise"} : _call_registered(g, outcome)
    \/ _reset_signal_handlers(g)
    \/ _call_signals(g)
    \/ _call_signals_raises(g)

\* The inner with statement has ended with an exception, which the body of
\* instance 1 does not catch: __exit__ of instance 1 is called with it.
InnerRaises ==
    /\ pc[1] = "body"
    /\ Finished(2)
    /\ escaped[2] # "none"
    /\ pc' = [pc EXCEPT ![1] = "exit"]
    /\ exec_type' = [exec_type EXCEPT ![1] = escaped[2]]
    /\ UNCHANGED <<handler, body_executed, funcs, prev_handlers,
                   received_signals, idx, retval, nreg, called, failed, killed,
                   before, sigLog, escaped, stray, nsig>>

NextNest ==
    \/ \E g \in Guards : NestTurn(g) /\ nreg[g] < MaxSeqActions /\ register(g)
    \/ \E g \in Guards : NestTurn(g) /\ NestStep(g)
    \/ InnerRaises
    \/ \E h \in Guards : nsig < MaxSeqSignals /\ SignalStep(h)

SpecNest == Init /\ [][NextNest]_vars

\* The os.kill calls of either instance for signal s that went to the handler
\* the table held for s before instance 1 was entered.
DeliveredToOriginal(s) ==
    Cardinality({i \in 1..Len(killed[1]) :
                    killed[1][i] = [sig |-> s, by |-> before[1][s]]})
    + Cardinality({i \in 1..Len(killed[2]) :
                    killed[2][i] = [sig |-> s, by |-> before[1][s]]})

\* How many times s is in the list seq.
Occurrences(seq, s) == Cardinality({i \in 1..Len(seq) : seq[i] = s})

\* __exit__ of g was called with a failure and got as far as _call_signals:
\* the handlers g installed are gone, so all of received_signals was recorded
\* while the scope of g was open.
ReachedCallSignals(g) ==
    /\ Finished(g)
    /\ body_executed[g]
    /\ exec_type[g] \in {"SignalExit", "Other"}
    /\ \A s \in Sigs : prev_handlers[g][s] = Absent

\* C20 (as claimed): instance 2 is entered inside the with-body of instance 1
\* and records tracked signals while its scope is open.  Once both scopes are
\* over, the functions of instance 2 have all been called, before any of
\* instance 1; the functions of instance 1 have all been called; the table is
\* as it was before instance 1 was entered; and every signal instance 2
\* recorded has been sent to the handler the table held for it then.
C20_NestedGuardsAsClaimed ==
    (/\ Finished(1)
     /\ ReachedCallSignals(2)
     /\ received_signals[2] # <<>>)
    => /\ called[2] = ReverseOrder(2)
       /\ called[1] = ReverseOrder(1)
       /\ Restored(1)
       /\ \A s \in Sigs :
             DeliveredToOriginal(s) >= Occurrences(received_signals[2], s)

=============================================================================
